---- MODULE Spec2Model ----
(***************************************************************************)
(* Model of the two-paddle ball game of src/src/main.rs: the wrapped grid, *)
(* the paddles' one-shot vertical moves, the ball's move-and-bounce step,  *)
(* the per-tick update order and the routing of key-down events.           *)
(***************************************************************************)
EXTENDS Integers, Sequences, FiniteSets, TLC

\* ---------------------------------------------------------------- constants
\* const GRID_SIZE: (i16, i16) = (30, 20); GRID_SIZE[1] is .0, GRID_SIZE[2] is .1
GRID_SIZE == <<30, 20>>

\* let length = 5; in Padle::new
length == 5

\* Ticks per second.
DESIRED_FPS == 23

\* GameState::new seeds Rand32 with the constant 0 (the getrandom call is
\* commented out), so every run of the program places the ball on the same
\* cell, which oorandom's generator makes (6, 6): StartRow is its row.
StartRow == 6

\* Number of grid rows the ball's start cell is drawn from: the program's own
\* start row first, then the rows below it. The ball never leaves its row, so
\* each row is a separate part of the state space, and the paddles reach
\* every row of the torus.
MaxBallRows == 1

BallRows ==
    { (StartRow + i) % GRID_SIZE[2] : i \in 0..(MaxBallRows - 1) }

\* ------------------------------------------------------------------- values
\* enum Direction
Direction == {"None", "Up", "Down", "Left", "Right"}

\* ggez KeyCode: the six keys the program maps, and "A" for any other key.
KeyCodes == {"Up", "Down", "Left", "Right", "W", "S", "A"}

\* Option<T>: Some(v) is <<v>>, None is << >>.
Some(v) == <<v>>
NoneOpt == << >>

\* KeyInput.keycode is an Option<KeyCode>.
KeyInputs == { Some(k) : k \in KeyCodes } \cup { NoneOpt }

\* --------------------------------------------------------------- GridPosition
GridPosition_new(x, y) == [x |-> x, y |-> y]

\* impl From<(i16, i16)> for GridPosition
GridPosition_from(t) == [x |-> t[1], y |-> t[2]]

\* GridPosition::random: every cell the two rand_range calls can produce.
GridPosition_random(max_x, max_y) ==
    { GridPosition_from(<<x, y>>) : x \in 0..(max_x - 1), y \in 0..(max_y - 1) }

\* i16::rem_euclid for a positive modulus
rem_euclid(a, m) == a % m

\* Rust's % operator (truncated remainder), which the code avoids.
rem_trunc(a, m) == IF a >= 0 THEN a % m ELSE -((-a) % m)

new_from_move_trunc(pos, dir) ==
    CASE dir = "None"  -> pos
      [] dir = "Up"    -> GridPosition_new(pos.x, rem_trunc(pos.y - 1, GRID_SIZE[2]))
      [] dir = "Down"  -> GridPosition_new(pos.x, rem_trunc(pos.y + 1, GRID_SIZE[2]))
      [] dir = "Left"  -> GridPosition_new(rem_trunc(pos.x - 1, GRID_SIZE[1]), pos.y)
      [] dir = "Right" -> GridPosition_new(rem_trunc(pos.x + 1, GRID_SIZE[1]), pos.y)

\* new_from_move that stops at the grid's edges instead of wrapping.
new_from_move_clamp(pos, dir) ==
    CASE dir = "None"  -> pos
      [] dir = "Up"    -> GridPosition_new(pos.x, IF pos.y = 0 THEN 0 ELSE pos.y - 1)
      [] dir = "Down"  -> GridPosition_new(pos.x, IF pos.y = GRID_SIZE[2] - 1 THEN pos.y ELSE pos.y + 1)
      [] dir = "Left"  -> GridPosition_new(IF pos.x = 0 THEN 0 ELSE pos.x - 1, pos.y)
      [] dir = "Right" -> GridPosition_new(IF pos.x = GRID_SIZE[1] - 1 THEN pos.x ELSE pos.x + 1, pos.y)

new_from_move(pos, dir) ==
    CASE dir = "None"  -> pos
      [] dir = "Up"    -> GridPosition_new(pos.x, rem_euclid(pos.y - 1, GRID_SIZE[2]))
      [] dir = "Down"  -> GridPosition_new(pos.x, rem_euclid(pos.y + 1, GRID_SIZE[2]))
      [] dir = "Left"  -> GridPosition_new(rem_euclid(pos.x - 1, GRID_SIZE[1]), pos.y)
      [] dir = "Right" -> GridPosition_new(rem_euclid(pos.x + 1, GRID_SIZE[1]), pos.y)

\* ------------------------------------------------------------------ Direction
\* inverse with a slip in its last arm: Right stays Right.
inverse_slip(d) ==
    CASE d = "None"  -> "None"
      [] d = "Up"    -> "Down"
      [] d = "Down"  -> "Up"
      [] d = "Left"  -> "Right"
      [] d = "Right" -> "Right"

inverse(d) ==
    CASE d = "None"  -> "None"
      [] d = "Up"    -> "Down"
      [] d = "Down"  -> "Up"
      [] d = "Left"  -> "Right"
      [] d = "Right" -> "Left"

from_keycode(key) ==
    CASE key = "Up"    -> Some("Up")
      [] key = "Down"  -> Some("Down")
      [] key = "W"     -> Some("Up")
      [] key = "S"     -> Some("Down")
      [] key = "Left"  -> Some("Left")
      [] key = "Right" -> Some("Right")
      [] OTHER         -> NoneOpt

\* from_keycode_player_number with W routed to player 2.
from_keycode_player_number_w2(key) ==
    CASE key = "Up"    -> Some(2)
      [] key = "Down"  -> Some(2)
      [] key = "Left"  -> Some(2)
      [] key = "Right" -> Some(2)
      [] key = "W"     -> Some(2)
      [] key = "S"     -> Some(1)
      [] OTHER         -> NoneOpt

from_keycode_player_number(key) ==
    CASE key = "Up"    -> Some(2)
      [] key = "Down"  -> Some(2)
      [] key = "Left"  -> Some(2)
      [] key = "Right" -> Some(2)
      [] key = "W"     -> Some(1)
      [] key = "S"     -> Some(1)
      [] OTHER         -> NoneOpt

\* -------------------------------------------------------------------- Segment
Segment_new(pos) == [pos |-> pos]

\* ---------------------------------------------------------------------- Padle
\* VecDeque operations on a sequence whose first element is the front.
push_back(s, e) == Append(s, e)
push_front(s, e) == <<e>> \o s
pop_front(s) == IF s = << >> THEN s ELSE Tail(s)
pop_back(s) == IF s = << >> THEN s ELSE SubSeq(s, 1, Len(s) - 1)

\* Padle::new that lays the segments out downwards from pos.
Padle_new_asc(pos) ==
    [ body |-> [ i \in 1..length |->
                   Segment_new(GridPosition_from(<<pos.x, pos.y + (i - 1)>>)) ],
      dir  |-> "None" ]

Padle_new(pos) ==
    [ body |-> [ i \in 1..length |->
                   Segment_new(GridPosition_from(<<pos.x, pos.y - (i - 1)>>)) ],
      dir  |-> "None" ]

\* Padle::update without the two pops: each move grows the body.
Padle_update_nopop(p) ==
    LET a == IF p.dir = "Up" /\ p.body # << >>
             THEN [ body |-> push_back(p.body,
                               Segment_new(new_from_move(p.body[Len(p.body)].pos, p.dir))),
                    dir  |-> "None" ]
             ELSE p
    IN  IF a.dir = "Down" /\ a.body # << >>
        THEN [ body |-> push_front(a.body,
                          Segment_new(new_from_move(a.body[1].pos, a.dir))),
               dir  |-> "None" ]
        ELSE a

\* Padle::update whose Up branch is anchored on the front segment.
Padle_update_upfront(p) ==
    LET a == IF p.dir = "Up" /\ p.body # << >>
             THEN [ body |-> pop_front(push_back(p.body,
                               Segment_new(new_from_move(p.body[1].pos, p.dir)))),
                    dir  |-> "None" ]
             ELSE p
    IN  IF a.dir = "Down" /\ a.body # << >>
        THEN [ body |-> pop_back(push_front(a.body,
                          Segment_new(new_from_move(a.body[1].pos, a.dir)))),
               dir  |-> "None" ]
        ELSE a

\* Padle::update whose Down branch is anchored on the back segment.
Padle_update_downback(p) ==
    LET a == IF p.dir = "Up" /\ p.body # << >>
             THEN [ body |-> pop_front(push_back(p.body,
                               Segment_new(new_from_move(p.body[Len(p.body)].pos, p.dir)))),
                    dir  |-> "None" ]
             ELSE p
    IN  IF a.dir = "Down" /\ a.body # << >>
        THEN [ body |-> pop_back(push_front(a.body,
                          Segment_new(new_from_move(a.body[Len(a.body)].pos, a.dir)))),
               dir  |-> "None" ]
        ELSE a

\* Padle::update that never resets dir: the paddle keeps moving every tick.
Padle_update_keepdir(p) ==
    LET a == IF p.dir = "Up" /\ p.body # << >>
             THEN [ body |-> pop_front(push_back(p.body,
                               Segment_new(new_from_move(p.body[Len(p.body)].pos, p.dir)))),
                    dir  |-> p.dir ]
             ELSE p
    IN  IF a.dir = "Down" /\ a.body # << >>
        THEN [ body |-> pop_back(push_front(a.body,
                          Segment_new(new_from_move(a.body[1].pos, a.dir)))),
               dir  |-> a.dir ]
        ELSE a

\* Padle::update that clears dir on every call, whatever it was.
Padle_update_resetall(p) ==
    LET a == IF p.dir = "Up" /\ p.body # << >>
             THEN [ body |-> pop_front(push_back(p.body,
                               Segment_new(new_from_move(p.body[Len(p.body)].pos, p.dir)))),
                    dir  |-> "None" ]
             ELSE p
        b == IF a.dir = "Down" /\ a.body # << >>
             THEN [ body |-> pop_back(push_front(a.body,
                               Segment_new(new_from_move(a.body[1].pos, a.dir)))),
                    dir  |-> "None" ]
             ELSE a
    IN  [b EXCEPT !.dir = "None"]

\* Padle::update whose Down branch pushes the new segment on the back, the
\* end it then pops: a Down move leaves the body where it was.
Padle_update_downpush(p) ==
    LET a == IF p.dir = "Up" /\ p.body # << >>
             THEN [ body |-> pop_front(push_back(p.body,
                               Segment_new(new_from_move(p.body[Len(p.body)].pos, p.dir)))),
                    dir  |-> "None" ]
             ELSE p
    IN  IF a.dir = "Down" /\ a.body # << >>
        THEN [ body |-> pop_back(push_back(a.body,
                          Segment_new(new_from_move(a.body[1].pos, a.dir)))),
               dir  |-> "None" ]
        ELSE a

Padle_update(p) ==
    LET a == IF p.dir = "Up" /\ p.body # << >>
             THEN [ body |-> pop_front(push_back(p.body,
                               Segment_new(new_from_move(p.body[Len(p.body)].pos, p.dir)))),
                    dir  |-> "None" ]
             ELSE p
    IN  IF a.dir = "Down" /\ a.body # << >>
        THEN [ body |-> pop_back(push_front(a.body,
                          Segment_new(new_from_move(a.body[1].pos, a.dir)))),
               dir  |-> "None" ]
        ELSE a

meats_ball(p, b) == \E i \in 1..Len(p.body) : p.body[i].pos = b.pos

\* ----------------------------------------------------------------------- Ball
\* A ball that starts out moving Right.
Ball_new_right(pos) == [pos |-> pos, dir |-> "Right"]

Ball_new(pos) == [pos |-> pos, dir |-> "Left"]

\* The ball after the unconditional first move of Ball::update.
\* A ball that moves two cells per tick.
Ball_moved_two(b) ==
    [b EXCEPT !.pos = new_from_move(new_from_move(b.pos, b.dir), b.dir)]

Ball_moved(b) == [b EXCEPT !.pos = new_from_move(b.pos, b.dir)]

\* Ball_bounce without the second move: the ball stays on the cell it hit.
Ball_bounce_stay(b, p) ==
    IF meats_ball(p, b)
    THEN [pos |-> b.pos, dir |-> inverse(b.dir)]
    ELSE b

\* One collision check of Ball::update: invert and step back out on a hit.
\* A bounce that deflects the ball along the paddle instead of sending it back.
Ball_bounce_deflect(b, p) ==
    IF meats_ball(p, b)
    THEN [pos |-> new_from_move(b.pos, "Up"), dir |-> "Up"]
    ELSE b

Ball_bounce(b, p) ==
    IF meats_ball(p, b)
    THEN [pos |-> new_from_move(b.pos, inverse(b.dir)), dir |-> inverse(b.dir)]
    ELSE b

\* Ball::update whose padle2 branch steps on without inverting the direction.
Ball_update_noinv2(b, p1, p2) ==
    LET a == Ball_bounce(Ball_moved(b), p1)
    IN  IF meats_ball(p2, a)
        THEN [pos |-> new_from_move(a.pos, a.dir), dir |-> a.dir]
        ELSE a

Ball_update(b, p1, p2) == Ball_bounce(Ball_bounce(Ball_moved(b), p1), p2)

\* ------------------------------------------------------------------ GameState
\* GameState values are records [padle1, padle2, ball, gameover]; the rng field
\* is read only inside GameState::new and is left out.
GameState_new(ball_pos) ==
    [ padle1   |-> Padle_new(GridPosition_from(<<0, GRID_SIZE[2] \div 2>>)),
      padle2   |-> Padle_new(GridPosition_from(<<GRID_SIZE[1] - 1, GRID_SIZE[2] \div 2>>)),
      ball     |-> Ball_new(ball_pos),
      gameover |-> FALSE ]

\* A tick that updates the ball first: its collision checks see the paddle
\* bodies as they were before this tick's paddle moves.
GameState_update_ballfirst(g) ==
    IF ~g.gameover
    THEN [g EXCEPT !.padle1 = Padle_update(g.padle1),
                   !.padle2 = Padle_update(g.padle2),
                   !.ball = Ball_update(g.ball, g.padle1, g.padle2)]
    ELSE g

\* A tick with the commented-out game-over rule switched on: the game is over
\* once the ball ends a tick on a paddle cell.
GameState_update_ate(g) ==
    IF ~g.gameover
    THEN LET p1 == Padle_update(g.padle1)
             p2 == Padle_update(g.padle2)
             b  == Ball_update(g.ball, p1, p2)
         IN  [g EXCEPT !.padle1 = p1, !.padle2 = p2, !.ball = b,
                       !.gameover = meats_ball(p1, b) \/ meats_ball(p2, b)]
    ELSE g

\* One due tick of EventHandler::update (one iteration of its while loop).
GameState_update(g) ==
    IF ~g.gameover
    THEN LET p1 == Padle_update(g.padle1)
             p2 == Padle_update(g.padle2)
         IN  [g EXCEPT !.padle1 = p1, !.padle2 = p2,
                       !.ball = Ball_update(g.ball, p1, p2)]
    ELSE g

\* Which of the two collision checks of that tick's Ball::update fire.
GameState_update_hits(g) ==
    LET p1 == Padle_update(g.padle1)
        p2 == Padle_update(g.padle2)
        m  == Ball_moved(g.ball)
    IN  [ p1 |-> meats_ball(p1, m), p2 |-> meats_ball(p2, Ball_bounce(m, p1)) ]

\* key_down_event that keeps a pending direction: the first key since the
\* last consumption wins instead of the last.
GameState_key_down_event_first(g, input) ==
    LET player_number == IF input = NoneOpt THEN NoneOpt
                         ELSE from_keycode_player_number(input[1])
        dir == IF input = NoneOpt THEN NoneOpt ELSE from_keycode(input[1])
    IN  IF player_number # NoneOpt /\ dir # NoneOpt
        THEN LET g1 == IF player_number[1] = 1 /\ g.padle1.dir = "None"
                       THEN [g EXCEPT !.padle1.dir = dir[1]] ELSE g
             IN  IF player_number[1] = 2 /\ g.padle2.dir = "None"
                 THEN [g1 EXCEPT !.padle2.dir = dir[1]] ELSE g1
        ELSE g

\* EventHandler::key_down_event
GameState_key_down_event(g, input) ==
    LET \* input.keycode.and_then(f): None stays None, Some(k) gives f(k)
        player_number == IF input = NoneOpt THEN NoneOpt
                         ELSE from_keycode_player_number(input[1])
        dir == IF input = NoneOpt THEN NoneOpt ELSE from_keycode(input[1])
    IN  IF player_number # NoneOpt /\ dir # NoneOpt
        THEN LET g1 == IF player_number[1] = 1
                       THEN [g EXCEPT !.padle1.dir = dir[1]] ELSE g
             IN  IF player_number[1] = 2
                 THEN [g1 EXCEPT !.padle2.dir = dir[1]] ELSE g1
        ELSE g

VARIABLES padle1, padle2, ball, gameover, bounced

vars == <<padle1, padle2, ball, gameover, bounced>>

\* The GameState value held by the variables.
Game == [padle1 |-> padle1, padle2 |-> padle2, ball |-> ball, gameover |-> gameover]

\* The variables take the fields of the GameState value g.
Becomes(g) ==
    /\ padle1' = g.padle1
    /\ padle2' = g.padle2
    /\ ball' = g.ball
    /\ gameover' = g.gameover

\* GameState::new with the ball on any cell GridPosition::random can return in
\* the modelled rows, the program's own start cell (6, 6) among them; bounced
\* records which collision checks of the latest
\* tick fired (none before the first tick).
Init ==
    /\ \E ball_pos \in GridPosition_random(GRID_SIZE[1], GRID_SIZE[2]) :
          /\ ball_pos.y \in BallRows
          /\ padle1 = GameState_new(ball_pos).padle1
          /\ padle2 = GameState_new(ball_pos).padle2
          /\ ball = GameState_new(ball_pos).ball
          /\ gameover = GameState_new(ball_pos).gameover
    /\ bounced = [p1 |-> FALSE, p2 |-> FALSE]

update ==
    /\ Becomes(GameState_update(Game))
    /\ bounced' = IF ~gameover THEN GameState_update_hits(Game) ELSE bounced

key_down_event(input) ==
    /\ Becomes(GameState_key_down_event(Game, input))
    /\ UNCHANGED bounced

KeyDown == \E input \in KeyInputs : key_down_event(input)

Next == update \/ KeyDown

Spec == Init /\ [][Next]_vars

\* GameState::new restricted to the starts in which the ball is on no paddle cell.
InitClear == Init /\ ~meats_ball(padle1, ball) /\ ~meats_ball(padle2, ball)

SpecClear == InitClear /\ [][Next]_vars

\* GameState::new with the ball on any cell of the grid.
InitAnyCell ==
    /\ \E ball_pos \in GridPosition_random(GRID_SIZE[1], GRID_SIZE[2]) :
          /\ padle1 = GameState_new(ball_pos).padle1
          /\ padle2 = GameState_new(ball_pos).padle2
          /\ ball = GameState_new(ball_pos).ball
          /\ gameover = GameState_new(ball_pos).gameover
    /\ bounced = [p1 |-> FALSE, p2 |-> FALSE]

\* A run in which no key is ever pressed: ticks only.
SpecTicks == InitAnyCell /\ [][update]_vars

\* The two pure functions on their own: the ball record holds an argument
\* pair (any cell of the grid, any of the five directions), Move applies
\* GridPosition::new_from_move to it and Invert applies Direction::inverse.
InitMoves ==
    /\ \E pos \in GridPosition_random(GRID_SIZE[1], GRID_SIZE[2]), dir \in Direction :
          /\ ball = [pos |-> pos, dir |-> dir]
          /\ padle1 = GameState_new(pos).padle1
          /\ padle2 = GameState_new(pos).padle2
          /\ gameover = GameState_new(pos).gameover
    /\ bounced = [p1 |-> FALSE, p2 |-> FALSE]

Move ==
    /\ ball' = [ball EXCEPT !.pos = new_from_move(ball.pos, ball.dir)]
    /\ UNCHANGED <<padle1, padle2, gameover, bounced>>

Invert ==
    /\ ball' = [ball EXCEPT !.dir = inverse(ball.dir)]
    /\ UNCHANGED <<padle1, padle2, gameover, bounced>>

SpecMoves == InitMoves /\ [][Move \/ Invert]_vars

\* --------------------------------------------------------------- vocabulary
InGrid(pos) ==
    /\ 0 <= pos.x /\ pos.x < GRID_SIZE[1]
    /\ 0 <= pos.y /\ pos.y < GRID_SIZE[2]

Padles == <<padle1, padle2>>

\* The y coordinates of a body, front to back.
Ys(p) == [i \in 1..Len(p.body) |-> p.body[i].pos.y]

\* A body of 5 segments in one column, each one cell above the previous
\* (modulo the grid height) from front to back.
Contiguous(p) ==
    /\ Len(p.body) = 5
    /\ \A i \in 2..Len(p.body) :
          /\ p.body[i].pos.x = p.body[1].pos.x
          /\ p.body[i].pos.y = (p.body[i - 1].pos.y - 1) % 20

\* A body with every segment moved dy cells down the wrapped column.
Translate(body, dy) ==
    [ i \in 1..Len(body) |->
        [pos |-> [x |-> body[i].pos.x, y |-> (body[i].pos.y + dy) % 20]] ]

\* The vertical displacement a pending direction asks for.
Step(d) == IF d = "Up" THEN -1 ELSE IF d = "Down" THEN 1 ELSE 0

\* The keys of player 1 and of player 2, and the direction each key stands for.
PlayerKeys == << {"W", "S"}, {"Up", "Down", "Left", "Right"} >>
KeyDir == [ k \in {"W", "S", "Up", "Down", "Left", "Right"} |->
              IF k = "W" THEN "Up" ELSE IF k = "S" THEN "Down" ELSE k ]

\* The game after one tick, and after a key-down event with the given input.
AfterTick(g) == GameState_update(g)
AfterKey(g, input) == GameState_key_down_event(g, input)

\* Paddle n of a GameState value.
PadleOf(g, n) == IF n = 1 THEN g.padle1 ELSE g.padle2

\* Paddle p has a segment on cell c.
OnCell(p, c) == \E i \in 1..Len(p.body) : p.body[i].pos = c

\* The game after n ticks, and a position after n moves in direction dir.
RECURSIVE Ticks(_, _)
Ticks(g, n) == IF n = 0 THEN g ELSE AfterTick(Ticks(g, n - 1))

RECURSIVE MoveN(_, _, _)
MoveN(pos, dir, n) == IF n = 0 THEN pos ELSE new_from_move(MoveN(pos, dir, n - 1), dir)

TypeOK ==
    /\ padle1.dir \in Direction /\ padle2.dir \in Direction
    /\ ball.dir \in Direction
    /\ gameover \in BOOLEAN
    /\ bounced \in [p1 : BOOLEAN, p2 : BOOLEAN]

\* ------------------------------------------------------------------- claims

\* C1: in every reachable state the ball's position and every segment of both
\* paddles lie inside the grid, 0 <= x < 30 and 0 <= y < 20.
C1_InBounds ==
    /\ InGrid(ball.pos)
    /\ \A n \in 1..2 : \A i \in 1..Len(Padles[n].body) : InGrid(Padles[n].body[i].pos)

\* C1 witness: padle1 straddles the y wrap (front below the top edge, back
\* above the bottom edge) and the ball has bounced and sits in the last column.
C1_Witness ==
    /\ padle1.body[1].pos.y = 1
    /\ padle1.body[Len(padle1.body)].pos.y = GRID_SIZE[2] - 3
    /\ ball.pos.x = GRID_SIZE[1] - 1
    /\ ball.dir = "Right"

\* C2: started with the ball on no paddle cell, the ball's cell differs from
\* every segment of padle1 and of padle2 in every reachable state.
C2_NoOverlap == ~meats_ball(padle1, ball) /\ ~meats_ball(padle2, ball)

\* C3: both paddles' bodies hold exactly 5 segments in every reachable state.
C3_BodyLength == Len(padle1.body) = 5 /\ Len(padle2.body) = 5

\* C3 witness: both paddles have been moved, padle1 two cells up and padle2
\* two cells down from where Padle::new put them.
C3_Witness ==
    /\ Ys(padle1) = <<8, 7, 6, 5, 4>>
    /\ Ys(padle2) = <<12, 11, 10, 9, 8>>

\* C4: a tick in which the ball moves Left and the cell to its left is a cell
\* of padle1 (as moved in that tick) leaves the ball moving Right on the cell
\* one to the right of that paddle cell, which is no cell of padle1.
C4_BounceOffPadle1 ==
    [][ ( /\ ball.dir = "Left"
          /\ \E i \in 1..Len(padle1'.body) :
                 padle1'.body[i].pos = new_from_move(ball.pos, "Left")
          /\ update )
        => ( /\ ball'.dir = "Right"
             /\ ball'.pos = new_from_move(new_from_move(ball.pos, "Left"), "Right")
             /\ \A i \in 1..Len(padle1'.body) : padle1'.body[i].pos # ball'.pos ) ]_vars

\* C4 witness: the latest tick's padle1 check fired alone and the ball is in
\* column 1, moving Right, beside a cell of padle1.
C4_Witness ==
    /\ bounced = [p1 |-> TRUE, p2 |-> FALSE]
    /\ ball.dir = "Right"
    /\ ball.pos.x = 1
    /\ \E i \in 1..Len(padle1.body) : padle1.body[i].pos = [x |-> 0, y |-> ball.pos.y]

\* C5: a tick in which the collision check fires for padle1 and then for
\* padle2 inverts the direction twice: the ball's direction after the tick
\* equals its direction before.
C5_DoubleBounce ==
    [][ (bounced'.p1 /\ bounced'.p2 /\ update) => ball'.dir = ball.dir ]_vars

\* C5 witness: a double bounce is reachable from GameState::new: both checks
\* of the latest tick fired.
C5_Witness == bounced.p1 /\ bounced.p2

\* C6: a tick on a paddle with a contiguous one-column body and dir = Up moves
\* every segment one cell up modulo 20, keeping x and the front-to-back order.
C6_UpTranslates ==
    [][ \A n \in 1..2 :
          (Padles[n].dir = "Up" /\ Contiguous(Padles[n]) /\ update)
             => Padles'[n].body = Translate(Padles[n].body, -1) ]_vars

\* C6 witness: padle1 has been moved up across the y = 0 boundary: its body
\* is ys 1, 0, 19, 18, 17 with no move pending.
C6_Witness ==
    /\ Ys(padle1) = <<1, 0, 19, 18, 17>>
    /\ padle1.dir = "None"
    /\ Ys(padle2) = <<9, 8, 7, 6, 5>>

\* C7: a tick on a paddle with a contiguous one-column body and dir = Down
\* moves every segment one cell down modulo 20, keeping x and the order.
C7_DownTranslates ==
    [][ \A n \in 1..2 :
          (Padles[n].dir = "Down" /\ Contiguous(Padles[n]) /\ update)
             => Padles'[n].body = Translate(Padles[n].body, 1) ]_vars

\* C7 witness: padle2 has been moved down across the y = 19 / y = 0 boundary:
\* its body is ys 2, 1, 0, 19, 18 with no move pending.
C7_Witness ==
    /\ Ys(padle2) = <<2, 1, 0, 19, 18>>
    /\ padle2.dir = "None"
    /\ Ys(padle1) = <<11, 10, 9, 8, 7>>

\* C8: a tick on a paddle with a pending Up or Down (set by a key-down event)
\* moves it exactly one cell and resets its dir to None; while its dir is None
\* a tick, and any input that is not a key of that player, leave the paddle as
\* it is.
C8_OneShot ==
    LET t == AfterTick(Game)
    IN  \A n \in 1..2 :
           LET p == PadleOf(Game, n)
           IN  /\ p.dir \in {"Up", "Down"}
                     => PadleOf(t, n) = [ body |-> Translate(p.body, Step(p.dir)),
                                          dir  |-> "None" ]
               /\ p.dir = "None"
                     => /\ PadleOf(t, n) = p
                        /\ \A input \in KeyInputs \ { Some(k) : k \in PlayerKeys[n] } :
                              PadleOf(AfterKey(Game, input), n) = p

\* C8 witness: padle1 is one cell below its start with its dir consumed, and
\* the ball has meanwhile bounced off it.
C8_Witness ==
    /\ Ys(padle1) = <<11, 10, 9, 8, 7>>
    /\ padle1.dir = "None"
    /\ ball.dir = "Right"

\* C9: in every reachable state, whatever direction earlier key events left
\* pending, a key-down event for a player replaces that paddle's pending dir by
\* the key's direction and leaves its body alone; and a tick moves the paddle
\* by the pending dir alone: one cell for Up or Down, not at all otherwise.
C9_LastKeyWins ==
    LET t == AfterTick(Game)
    IN  /\ \A k \in PlayerKeys[1] :
              AfterKey(Game, Some(k)).padle1 = [padle1 EXCEPT !.dir = KeyDir[k]]
        /\ \A k \in PlayerKeys[2] :
              AfterKey(Game, Some(k)).padle2 = [padle2 EXCEPT !.dir = KeyDir[k]]
        /\ t.padle1.body = Translate(padle1.body, Step(padle1.dir))
        /\ t.padle2.body = Translate(padle2.body, Step(padle2.dir))

\* C9 witness: padle1 holds a pending Up which a further S key event of the
\* same player replaces by Down before any tick consumes it.
C9_Witness ==
    /\ padle1.dir = "Up"
    /\ AfterKey(Game, Some("S")).padle1.dir = "Down"
    /\ Ys(padle1) = <<8, 7, 6, 5, 4>>

\* What a key-down event may change: W and S only padle1.dir, the arrow keys
\* only padle2.dir, any other input nothing.
KeyFrame ==
    \A input \in KeyInputs :
       AfterKey(Game, input) =
          IF input \in {Some("W"), Some("S")}
          THEN [Game EXCEPT !.padle1.dir = KeyDir[input[1]]]
          ELSE IF input \in {Some("Up"), Some("Down"), Some("Left"), Some("Right")}
               THEN [Game EXCEPT !.padle2.dir = KeyDir[input[1]]]
               ELSE Game

\* C10 as stated: key events change only the addressed paddle's dir, and W
\* followed by one tick leaves padle1.dir = None and padle2.dir as it was.
C10_Original ==
    /\ KeyFrame
    /\ LET g == AfterTick(AfterKey(Game, Some("W")))
       IN  g.padle1.dir = "None" /\ g.padle2.dir = padle2.dir

\* C10 amended: key events change only the addressed paddle's dir, and W
\* followed by one tick leaves padle1.dir = None and padle2.dir as it was
\* unless it was a pending Up or Down, which that tick consumes to None.
C10_KeyRouting ==
    /\ KeyFrame
    /\ LET g == AfterTick(AfterKey(Game, Some("W")))
       IN  /\ g.padle1.dir = "None"
           /\ g.padle2.dir = IF padle2.dir \in {"Up", "Down"} THEN "None" ELSE padle2.dir

\* C10 witness: W and the Down arrow were both consumed by a tick: padle1 is
\* one cell up, padle2 one cell down, and both dirs are None.
C10_Witness ==
    /\ Ys(padle1) = <<9, 8, 7, 6, 5>> /\ padle1.dir = "None"
    /\ Ys(padle2) = <<11, 10, 9, 8, 7>> /\ padle2.dir = "None"

\* C11: within one tick both paddles move before the ball, and the ball's two
\* collision checks read the paddle bodies as they are after that tick's
\* paddle moves. With c the cell the ball steps into, the padle1 check fires
\* exactly when the moved padle1 has a segment on c, the padle2 check fires
\* exactly when the moved padle2 has a segment on the cell the ball stands on
\* at that point, and the ball's direction is inverted once per check that
\* fired. So a pending Up/Down that brings a paddle onto the cell makes the
\* ball bounce in this tick, and one that takes the paddle off it does not.
\* Stated of the tick taken from each reachable state.
C11_PadlesBeforeBall ==
    []( LET t    == AfterTick(Game)
            c    == new_from_move(ball.pos, ball.dir)
            hit1 == OnCell(t.padle1, c)
            at2  == IF hit1 THEN ball.pos ELSE c
            hit2 == OnCell(t.padle2, at2)
        IN  /\ t.padle1.body = Translate(padle1.body, Step(padle1.dir))
            /\ t.padle2.body = Translate(padle2.body, Step(padle2.dir))
            /\ GameState_update_hits(Game) = [p1 |-> hit1, p2 |-> hit2]
            /\ t.ball.dir = IF hit1 # hit2 THEN inverse(ball.dir) ELSE ball.dir
            /\ (~OnCell(padle1, c) /\ hit1 /\ ~hit2) => t.ball.pos = ball.pos
            /\ (OnCell(padle1, c) /\ ~hit1 /\ ~hit2) => t.ball = [ball EXCEPT !.pos = c] )

\* A state whose next tick is such a case: padle1 is not on the cell the
\* Left-moving ball steps into, its pending Up brings it there, and the tick
\* sends the ball back Right from where it stood.
C11_Witness ==
    LET c == new_from_move(ball.pos, ball.dir)
        t == AfterTick(Game)
    IN  /\ ball.dir = "Left" /\ padle1.dir = "Up"
        /\ ~OnCell(padle1, c) /\ OnCell(t.padle1, c)
        /\ t.ball = [pos |-> ball.pos, dir |-> "Right"]

\* C12: with no key events, the default paddles and the ball starting at
\* (5,5) moving Left, no collision check fires during the first 23 ticks (one
\* second at DESIRED_FPS), the ball after k <= 23 ticks is at new_from_move
\* applied k times to (5,5) and still moves Left, and after exactly 23 ticks
\* it is at (12,5). In the key-free runs themselves a ball on row 5 has never
\* met a paddle and still moves Left.
C12_FreeRun ==
    /\ Game = GameState_new(GridPosition_new(5, 5)) =>
           /\ \A k \in 0..DESIRED_FPS :
                 Ticks(Game, k).ball = [pos |-> MoveN(ball.pos, "Left", k), dir |-> "Left"]
           /\ \A k \in 0..(DESIRED_FPS - 1) :
                 GameState_update_hits(Ticks(Game, k)) = [p1 |-> FALSE, p2 |-> FALSE]
           /\ Ticks(Game, DESIRED_FPS).ball.pos = GridPosition_new(12, 5)
           /\ Ticks(Game, DESIRED_FPS).padle1 = padle1
           /\ Ticks(Game, DESIRED_FPS).padle2 = padle2
    /\ ball.pos.y = 5 =>
           /\ ball.dir = "Left"
           /\ bounced = [p1 |-> FALSE, p2 |-> FALSE]

\* The start state of that run, 23 ticks before the ball stands on (12,5).
C12_Witness ==
    /\ Game = GameState_new(GridPosition_new(5, 5))
    /\ bounced = [p1 |-> FALSE, p2 |-> FALSE]
    /\ Ticks(Game, DESIRED_FPS).ball = [pos |-> GridPosition_new(12, 5), dir |-> "Left"]

\* C13: the ball only ever travels horizontally: in every reachable state its
\* dir is Left or Right, and no step changes its y coordinate, so its row is
\* the one it started on.
C13_Horizontal ==
    /\ [](ball.dir \in {"Left", "Right"} /\ ball.pos.y \in BallRows)
    /\ [][ball'.pos.y = ball.pos.y]_vars

\* The ball has bounced off padle1 and travelled back Right to mid-field on
\* its start row.
C13_Witness ==
    /\ ~OnCell(padle1, GridPosition_new(0, StartRow))
    /\ ball = [pos |-> GridPosition_new(15, StartRow), dir |-> "Right"]

\* C14: the gameover flag is inert: it is false in every reachable state, so
\* every tick runs the padle1, padle2 and ball updates and moves the game on
\* (the ball never comes out of a tick as it went in).
C14_GameoverInert ==
    [](gameover = FALSE /\ AfterTick(Game).ball # ball)

\* The game goes on even with the ball on a paddle cell: the latest tick's
\* padle2 check fired, the ball ended on a padle1 segment, gameover is false.
C14_Witness ==
    /\ bounced.p2 /\ meats_ball(padle1, ball)
    /\ gameover = FALSE

\* C15: new_from_move wraps toroidally: for every cell p of the grid and
\* every direction d, new_from_move(p, d) is a cell of the grid and is p moved
\* one cell in d with a non-negative modulo on that axis: Left from x=0 gives
\* x=29, Right from x=29 gives x=0, Up from y=0 gives y=19, Down from y=19
\* gives y=0, any other move changes the coordinate by one, and None gives p.
C15_Wraps ==
    LET p == ball.pos
        d == ball.dir
        r == new_from_move(p, d)
    IN  /\ InGrid(p) /\ InGrid(r)
        /\ r = [ x |-> (p.x + (IF d = "Left" THEN -1 ELSE IF d = "Right" THEN 1 ELSE 0) + 30) % 30,
                 y |-> (p.y + (IF d = "Up" THEN -1 ELSE IF d = "Down" THEN 1 ELSE 0) + 20) % 20 ]
        /\ d = "Left"  => r = [x |-> IF p.x = 0 THEN 29 ELSE p.x - 1, y |-> p.y]
        /\ d = "Right" => r = [x |-> IF p.x = 29 THEN 0 ELSE p.x + 1, y |-> p.y]
        /\ d = "Up"    => r = [x |-> p.x, y |-> IF p.y = 0 THEN 19 ELSE p.y - 1]
        /\ d = "Down"  => r = [x |-> p.x, y |-> IF p.y = 19 THEN 0 ELSE p.y + 1]
        /\ d = "None"  => r = p

\* The top-left corner with an Up move pending: it wraps to the bottom row.
C15_Witness ==
    /\ ball = [pos |-> GridPosition_new(0, 0), dir |-> "Up"]
    /\ new_from_move(ball.pos, ball.dir) = GridPosition_new(0, 19)

\* C16: Direction::inverse is a total involution: for each of the five
\* variants d, d.inverse().inverse() = d, with None mapped to None, Up and
\* Down swapped, Left and Right swapped.
C16_Involution ==
    LET d == ball.dir
    IN  /\ d \in Direction
        /\ inverse(d) \in Direction
        /\ inverse(inverse(d)) = d
        /\ inverse(d) = [None |-> "None", Up |-> "Down", Down |-> "Up",
                         Left |-> "Right", Right |-> "Left"][d]

\* A Right argument: its inverse is Left and inverting again gives Right.
C16_Witness ==
    /\ ball.dir = "Right"
    /\ inverse(ball.dir) = "Left" /\ inverse(inverse(ball.dir)) = "Right"

\* C17: Padle::update with dir Left, Right or None has no effect: for either
\* paddle with any of these three dirs it changes neither the body nor dir,
\* and a tick leaves such a paddle exactly as it was. A Left/Right arrow key
\* sets padle2.dir and nothing else of padle2, every input that is not an
\* arrow key leaves padle2 alone, so padle2 never moves on Left/Right and its
\* dir stays Left/Right over the ticks until the next arrow key.
C17_SidewaysInert ==
    [](
        LET t == AfterTick(Game)
        IN  /\ \A n \in 1..2 :
                  /\ \A d \in {"Left", "Right", "None"} :
                        Padle_update([Padles[n] EXCEPT !.dir = d]) = [Padles[n] EXCEPT !.dir = d]
                  /\ Padles[n].dir \in {"Left", "Right", "None"} => PadleOf(t, n) = Padles[n]
            /\ \A k \in {"Left", "Right"} :
                  AfterKey(Game, Some(k)).padle2 = [padle2 EXCEPT !.dir = k]
            /\ \A input \in KeyInputs \ { Some(k) : k \in PlayerKeys[2] } :
                  AfterKey(Game, input).padle2 = padle2 )

\* padle2 has Left pending and stands where it started, in a game that has
\* run long enough for the ball to come back from padle1.
C17_Witness ==
    /\ padle2 = [GameState_new(ball.pos).padle2 EXCEPT !.dir = "Left"]
    /\ ball = [pos |-> GridPosition_new(20, StartRow), dir |-> "Right"]

\* C18: paddle shape: in every reachable state each paddle's body is 5
\* pairwise distinct cells, all in that paddle's column (x=0 for padle1, x=29
\* for padle2), and from front to back each segment's y is the previous
\* segment's y minus 1 modulo 20.
C18_Shape ==
    [](
        \A n \in 1..2 :
           LET body == Padles[n].body
           IN  /\ Len(body) = 5
               /\ Cardinality({ body[i].pos : i \in 1..Len(body) }) = 5
               /\ \A i \in 1..Len(body) : body[i].pos.x = IF n = 1 THEN 0 ELSE 29
               /\ \A i \in 2..Len(body) : body[i].pos.y = (body[i - 1].pos.y + 19) % 20 )

\* Both paddles have moved and straddle the wrap between rows 0 and 19,
\* padle1 two cells lower than padle2.
C18_Witness ==
    /\ Ys(padle1) = <<2, 1, 0, 19, 18>>
    /\ Ys(padle2) = <<0, 19, 18, 17, 16>>

\* C19: per-tick ball step: from every reachable state with ball (pos, dir),
\* one tick leaves the ball either at new_from_move(pos, dir) with dir
\* unchanged or at pos with dir inverted, whatever the paddles' positions and
\* pending moves are; no other outcome is possible.
C19_BallStep ==
    [](
        LET t == AfterTick(Game)
        IN  \/ t.ball = [pos |-> new_from_move(ball.pos, ball.dir), dir |-> ball.dir]
            \/ t.ball = [pos |-> ball.pos, dir |-> inverse(ball.dir)] )

\* The latest tick bounced the ball off padle2 alone: it is back on the cell
\* next to padle2's column and now moves Left.
C19_Witness ==
    /\ bounced = [p1 |-> FALSE, p2 |-> TRUE]
    /\ ball = [pos |-> GridPosition_new(28, StartRow), dir |-> "Left"]

\* C20: Up and Down moves undo each other although they work on opposite
\* ends of the body: for either paddle in any reachable state, an Up move
\* followed by a Down move, or a Down move followed by an Up move, gives back
\* exactly the body it started from, segment by segment in the same
\* front-to-back order, while each single move does change the body.
C20_UpDownUndo ==
    [](
        \A n \in 1..2 :
           LET p      == Padles[n]
               up     == Padle_update([p EXCEPT !.dir = "Up"])
               down   == Padle_update([p EXCEPT !.dir = "Down"])
               upDown == Padle_update([up EXCEPT !.dir = "Down"])
               downUp == Padle_update([down EXCEPT !.dir = "Up"])
           IN  /\ up.body # p.body /\ down.body # p.body
               /\ upDown = [body |-> p.body, dir |-> "None"]
               /\ downUp = [body |-> p.body, dir |-> "None"] )

\* padle1 stands on its start cells, the ball has bounced off it, and padle2
\* has been moved up across the wrap.
C20_Witness ==
    /\ Ys(padle1) = <<10, 9, 8, 7, 6>> /\ ball.dir = "Right"
    /\ Ys(padle2) = <<3, 2, 1, 0, 19>>
====
